---- MODULE Spec2Model ----
(***************************************************************************)
(* fit::optional<T> (system/ulib/fit/include/lib/fit/optional.h), with T   *)
(* the instrumented type slot of system/utest/fit/optional_tests.cpp.      *)
(*                                                                         *)
(* An optional is a presence flag has_value_ next to raw storage value_.   *)
(* The model keeps, for every optional object, the flag as the code writes *)
(* it and, separately, whether the storage currently holds a constructed,  *)
(* not yet destroyed T (live) and which value that T has.  Every member    *)
(* function is an operator over a "world" record, written statement by     *)
(* statement in the order of the code, from four primitive steps:          *)
(* placement new, explicit destructor call, T's assignment, and a write    *)
(* of the flag.                                                            *)
(***************************************************************************)
EXTENDS Integers, FiniteSets, Sequences, TLC

\* number of optional objects a client may hold at the same time
NumOpts == 2
\* slot values range over 1..MaxVal
MaxVal == 2

Opts == 1..NumOpts
Vals == 1..MaxVal

\* contents of storage that holds no T: slot's destructor leaves the sentinel
\* -1 behind; storage never constructed in is indeterminate and is written
\* the same way, a read of either may produce anything (Garbage)
NoVal == -1
\* what a read of storage that holds no T may produce
Garbage == {NoVal} \cup Vals

\* "no operand" in the record of the last call: a place outside Opts
Nobody == NumOpts + 1

VARIABLES
    opts,           \* Opts -> the optional object at that place, if any
    balance,        \* slot::balance: net constructor/destructor pairings
    doubleDestroy,  \* a destructor ran on storage that holds no live T
    aborted,        \* assert() failed; the process is gone
    ret,            \* what the last call returned
    last,           \* the last call: operation, operands, state before it
    copied          \* <<copy, source>> of the most recent copy from a Present optional

vars == <<opts, balance, doubleDestroy, aborted, ret, last, copied>>

\* a place where no optional object exists (before construction, after destruction)
NoObject == [exists |-> FALSE, has_value_ |-> FALSE, live |-> FALSE, value |-> NoVal]

NoRet == [kind |-> "none", target |-> Nobody, refLive |-> FALSE, val |-> NoVal]

NoCopy == <<Nobody, Nobody>>

\* the state the member functions work on, with the number of T constructions
\* (nc) and destructions (nd) in optional storage during the current call and
\* the optionals as they stood after each statement of the call (steps)
World == [o |-> opts, bal |-> balance, dd |-> doubleDestroy, nc |-> 0, nd |-> 0,
          steps |-> <<>>]

\* one statement of a member function has finished: note what the optionals
\* look like now
Snap(w) ==
    [w EXCEPT !.steps = Append(@, w.o)]

----------------------------------------------------------------------------
(* Primitive steps on the storage of optional t *)

\* new (&value_) T(v): slot's constructors store the value and do balance++
PlacementNew(w, t, v) ==
    Snap([w EXCEPT !.o[t].live = TRUE, !.o[t].value = v,
                   !.bal = @ + 1, !.nc = @ + 1])

\* value_.~T(): slot's destructor asserts the object was not destroyed
\* before, then does balance--
DestroyT(w, t) ==
    IF w.o[t].live
    THEN Snap([w EXCEPT !.o[t].live = FALSE, !.o[t].value = NoVal,
                        !.bal = @ - 1, !.nd = @ + 1])
    ELSE Snap([w EXCEPT !.dd = TRUE])

\* value_ = v: slot's defaulted assignment operators; no construction, no
\* destruction
AssignT(w, t, v) ==
    Snap([w EXCEPT !.o[t].value = v])

\* has_value_ = b
SetHasValue(w, t, b) ==
    Snap([w EXCEPT !.o[t].has_value_ = b])

\* the storage of a new optional object before its constructor has run
Alloc(w, t) ==
    [w EXCEPT !.o[t] = [exists |-> TRUE, has_value_ |-> FALSE,
                        live |-> FALSE, value |-> NoVal]]

\* the end of the lifetime of optional object t, after its destructor
Dealloc(w, t) ==
    [w EXCEPT !.o[t] = NoObject]

----------------------------------------------------------------------------
(* Constructors and destructor *)

\* a default constructor that sets the flag without constructing a T
optional_default_present(w, this) ==
    SetHasValue(Alloc(w, this), this, TRUE)

\* optional() : has_value_(false)
optional_default(w, this) ==
    SetHasValue(Alloc(w, this), this, FALSE)

\* optional(nullopt_t) : has_value_(false)
optional_nullopt(w, this) ==
    SetHasValue(Alloc(w, this), this, FALSE)

\* optional(T value) : has_value_(true), value_(std::move(value)).  The
\* by-value parameter is one more slot, constructed before and destroyed
\* after the call: balance +1 and -1 around the placement.
optional_value(w, this, v) ==
    PlacementNew(SetHasValue(Alloc(w, this), this, TRUE), this, v)

\* optional(const optional& other)
optional_copy(w, this, other) ==
    LET w1 == SetHasValue(Alloc(w, this), this, w.o[other].has_value_)
    IN  IF w1.o[this].has_value_
        THEN PlacementNew(w1, this, w1.o[other].value)
        ELSE w1

\* a move constructor that leaves the source flagged Present
optional_move_keeps_flag(w, this, other) ==
    LET w1 == SetHasValue(Alloc(w, this), this, w.o[other].has_value_)
    IN  IF w1.o[this].has_value_
        THEN DestroyT(PlacementNew(w1, this, w1.o[other].value), other)
        ELSE w1

\* optional(optional&& other)
optional_move(w, this, other) ==
    LET w1 == SetHasValue(Alloc(w, this), this, w.o[other].has_value_)
    IN  IF w1.o[this].has_value_
        THEN LET w2 == PlacementNew(w1, this, w1.o[other].value)
                 w3 == DestroyT(w2, other)
             IN  SetHasValue(w3, other, FALSE)
        ELSE w1

\* a destructor that forgets the contained T
optional_dtor_leaks(w, this) ==
    w

\* ~optional()
optional_dtor(w, this) ==
    IF w.o[this].has_value_ THEN DestroyT(w, this) ELSE w

----------------------------------------------------------------------------
(* Accessors.  An accessor changes nothing; it either fails the assertion  *)
(* or hands out the address of value_.                                     *)

\* value() compiled without its assertion
value_unchecked(w, this) ==
    [abort |-> FALSE, ref |-> this]

\* T& value() and const T& value() const: assert(has_value_); return value_;
value(w, this) ==
    IF w.o[this].has_value_
    THEN [abort |-> FALSE, ref |-> this]
    ELSE [abort |-> TRUE, ref |-> Nobody]

\* T* operator->() and const T* operator->() const: return &value_;
operator_arrow(w, this) ==
    [abort |-> FALSE, ref |-> this]

\* a dereference that asserts presence the way value() does
operator_star_checked(w, this) ==
    IF w.o[this].has_value_
    THEN [abort |-> FALSE, ref |-> this]
    ELSE [abort |-> TRUE, ref |-> Nobody]

\* T& operator*() and const T& operator*() const: return value_;
operator_star(w, this) ==
    [abort |-> FALSE, ref |-> this]

\* what the caller gets when it reads through the address of t's storage:
\* the contained value if a T lives there, anything otherwise
ReadThrough(w, t) ==
    IF w.o[t].live
    THEN {[kind |-> "ref", target |-> t, refLive |-> TRUE, val |-> w.o[t].value]}
    ELSE {[kind |-> "ref", target |-> t, refLive |-> FALSE, val |-> g] : g \in Garbage}

\* slot::increment() through operator->: ++value
increment(w, this) ==
    AssignT(w, this, w.o[this].value + 1)

----------------------------------------------------------------------------
(* reset and the assignment operators *)

\* a reset that destroys the T and leaves the flag set
reset_keeps_flag(w, this) ==
    IF w.o[this].has_value_ THEN DestroyT(w, this) ELSE w

\* a reset that clears the flag first and destroys the T afterwards
reset_flag_first(w, this) ==
    IF w.o[this].has_value_
    THEN DestroyT(SetHasValue(w, this, FALSE), this)
    ELSE w

\* void reset()
reset(w, this) ==
    IF w.o[this].has_value_
    THEN SetHasValue(DestroyT(w, this), this, FALSE)
    ELSE w

\* a copy assignment that empties its source the way the move does
assign_copy_empties_source(w, this, other) ==
    IF other = this THEN w
    ELSE IF w.o[this].has_value_
         THEN IF w.o[other].has_value_
              THEN SetHasValue(DestroyT(AssignT(w, this, w.o[other].value), other),
                               other, FALSE)
              ELSE reset(w, this)
         ELSE IF w.o[other].has_value_
              THEN SetHasValue(PlacementNew(w, this, w.o[other].value), this, TRUE)
              ELSE w

\* a copy assignment that ignores an Empty source
assign_copy_ignores_empty(w, this, other) ==
    IF other = this THEN w
    ELSE IF w.o[this].has_value_
         THEN IF w.o[other].has_value_
              THEN AssignT(w, this, w.o[other].value)
              ELSE w
         ELSE IF w.o[other].has_value_
              THEN SetHasValue(PlacementNew(w, this, w.o[other].value), this, TRUE)
              ELSE w

\* a copy assignment that destroys and reconstructs when both are Present
assign_copy_reconstructs(w, this, other) ==
    IF other = this THEN w
    ELSE IF w.o[this].has_value_
         THEN IF w.o[other].has_value_
              THEN PlacementNew(DestroyT(w, this), this, w.o[other].value)
              ELSE reset(w, this)
         ELSE IF w.o[other].has_value_
              THEN SetHasValue(PlacementNew(w, this, w.o[other].value), this, TRUE)
              ELSE w

\* optional& operator=(const optional& other)
assign_copy(w, this, other) ==
    IF other = this THEN w
    ELSE IF w.o[this].has_value_
         THEN IF w.o[other].has_value_
              THEN AssignT(w, this, w.o[other].value)
              ELSE reset(w, this)
         ELSE IF w.o[other].has_value_
              THEN SetHasValue(PlacementNew(w, this, w.o[other].value), this, TRUE)
              ELSE w

\* the four cases of the move assignment, after the identity test
assign_move_cases(w, this, other) ==
    IF w.o[this].has_value_
    THEN IF w.o[other].has_value_
         THEN LET w1 == AssignT(w, this, w.o[other].value)
                  w2 == DestroyT(w1, other)
              IN  SetHasValue(w2, other, FALSE)
         ELSE reset(w, this)
    ELSE IF w.o[other].has_value_
         THEN LET w1 == PlacementNew(w, this, w.o[other].value)
                  w2 == SetHasValue(w1, this, TRUE)
                  w3 == DestroyT(w2, other)
              IN  SetHasValue(w3, other, FALSE)
         ELSE w

\* a move assignment without the identity test
assign_move_no_self_test(w, this, other) ==
    assign_move_cases(w, this, other)

\* a move assignment that leaves a Present source alone when the target is Empty
assign_move_keeps_source(w, this, other) ==
    IF other = this THEN w
    ELSE IF w.o[this].has_value_
         THEN assign_move_cases(w, this, other)
         ELSE IF w.o[other].has_value_
              THEN SetHasValue(PlacementNew(w, this, w.o[other].value), this, TRUE)
              ELSE w

\* optional& operator=(optional&& other)
assign_move(w, this, other) ==
    IF other = this THEN w
    ELSE assign_move_cases(w, this, other)

\* a sentinel assignment that clears the flag and forgets the T
assign_nullopt_flag_only(w, this) ==
    IF w.o[this].has_value_ THEN SetHasValue(w, this, FALSE) ELSE w

\* optional& operator=(nullopt_t)
assign_nullopt(w, this) ==
    reset(w, this)

\* a value assignment that destroys a present T and constructs a new one
assign_value_reconstructs(w, this, v) ==
    IF w.o[this].has_value_
    THEN PlacementNew(DestroyT(w, this), this, v)
    ELSE SetHasValue(PlacementNew(w, this, v), this, TRUE)

\* a value assignment that sets the flag before it constructs the T
assign_value_flag_first(w, this, v) ==
    IF w.o[this].has_value_
    THEN AssignT(w, this, v)
    ELSE PlacementNew(SetHasValue(w, this, TRUE), this, v)

\* optional& operator=(T value): the by-value parameter is one more slot,
\* constructed before and destroyed after the call
assign_value(w, this, v) ==
    IF w.o[this].has_value_
    THEN AssignT(w, this, v)
    ELSE SetHasValue(PlacementNew(w, this, v), this, TRUE)

----------------------------------------------------------------------------
(* swap *)

\* std::swap(value_, other.value_) on slots: T tmp(move(a)); a = move(b);
\* b = move(tmp); with tmp one more slot constructed and destroyed inside
swapT(w, a, b) ==
    LET tmp == w.o[a].value
        w1  == AssignT(w, a, w.o[b].value)
    IN  AssignT(w1, b, tmp)

\* a swap that copies this's value into an Empty other and keeps its own
swap_keeps_value(w, this, other) ==
    IF other = this THEN w
    ELSE IF w.o[this].has_value_
         THEN IF w.o[other].has_value_
              THEN swapT(w, this, other)
              ELSE SetHasValue(PlacementNew(w, other, w.o[this].value), other, TRUE)
         ELSE IF w.o[other].has_value_
              THEN LET w1 == PlacementNew(w, this, w.o[other].value)
                       w2 == SetHasValue(w1, this, TRUE)
                       w3 == DestroyT(w2, other)
                   IN  SetHasValue(w3, other, FALSE)
              ELSE w

\* a swap that moves this's value into an Empty other and never destroys
\* its own
swap_no_destroy(w, this, other) ==
    IF other = this THEN w
    ELSE IF w.o[this].has_value_
         THEN IF w.o[other].has_value_
              THEN swapT(w, this, other)
              ELSE LET w1 == PlacementNew(w, other, w.o[this].value)
                       w2 == SetHasValue(w1, other, TRUE)
                   IN  SetHasValue(w2, this, FALSE)
         ELSE IF w.o[other].has_value_
              THEN LET w1 == PlacementNew(w, this, w.o[other].value)
                       w2 == SetHasValue(w1, this, TRUE)
                       w3 == DestroyT(w2, other)
                   IN  SetHasValue(w3, other, FALSE)
              ELSE w

\* void swap(optional& other)
swap(w, this, other) ==
    IF other = this THEN w
    ELSE IF w.o[this].has_value_
         THEN IF w.o[other].has_value_
              THEN swapT(w, this, other)
              ELSE LET w1 == PlacementNew(w, other, w.o[this].value)
                       w2 == SetHasValue(w1, other, TRUE)
                       w3 == DestroyT(w2, this)
                   IN  SetHasValue(w3, this, FALSE)
         ELSE IF w.o[other].has_value_
              THEN LET w1 == PlacementNew(w, this, w.o[other].value)
                       w2 == SetHasValue(w1, this, TRUE)
                       w3 == DestroyT(w2, other)
                   IN  SetHasValue(w3, other, FALSE)
              ELSE w

\* template <typename T> void swap(optional<T>& a, optional<T>& b): a.swap(b)
swap_free(w, a, b) ==
    swap(w, a, b)

----------------------------------------------------------------------------
(* Queries: has_value, value_or and the comparison operators.  They read   *)
(* the optionals and write nothing.                                        *)

\* bool has_value() const
has_value(w, this) ==
    w.o[this].has_value_

\* what *x evaluates to inside a comparison: the content of x's storage
Deref(w, x) ==
    w.o[operator_star(w, x).ref].value

\* bool slot::operator==(const slot& other) const
slot_eq(x, y) ==
    x = y

\* bool slot::operator!=(const slot& other) const
slot_ne(x, y) ==
    x # y

\* a value_or that hands back the default whatever the optional holds
value_or_default_always(w, this, default_value) ==
    default_value

\* T value_or(U&& default_value) const
value_or(w, this, default_value) ==
    IF w.o[this].has_value_ THEN w.o[this].value ELSE default_value

\* operator==(const optional<T>& lhs, nullopt_t)
eq_nullopt(w, lhs) ==
    ~has_value(w, lhs)

\* operator!=(const optional<T>& lhs, nullopt_t)
ne_nullopt(w, lhs) ==
    has_value(w, lhs)

\* operator==(nullopt_t, const optional<T>& rhs)
nullopt_eq(w, rhs) ==
    ~has_value(w, rhs)

\* operator!=(nullopt_t, const optional<T>& rhs)
nullopt_ne(w, rhs) ==
    has_value(w, rhs)

\* operator==(const optional<T>& lhs, const optional<U>& rhs)
eq_optional(w, lhs, rhs) ==
    (has_value(w, lhs) = has_value(w, rhs))
        /\ (~has_value(w, lhs) \/ slot_eq(Deref(w, lhs), Deref(w, rhs)))

\* an inequality of optionals with && where the code has ||
ne_optional_and(w, lhs, rhs) ==
    (has_value(w, lhs) # has_value(w, rhs))
        /\ (has_value(w, lhs) /\ slot_ne(Deref(w, lhs), Deref(w, rhs)))

\* operator!=(const optional<T>& lhs, const optional<U>& rhs)
ne_optional(w, lhs, rhs) ==
    (has_value(w, lhs) # has_value(w, rhs))
        \/ (has_value(w, lhs) /\ slot_ne(Deref(w, lhs), Deref(w, rhs)))

\* operator==(const optional<T>& lhs, const U& rhs)
eq_value(w, lhs, rhs) ==
    has_value(w, lhs) /\ slot_eq(Deref(w, lhs), rhs)

\* operator!=(const optional<T>& lhs, const U& rhs)
ne_value(w, lhs, rhs) ==
    ~has_value(w, lhs) \/ slot_ne(Deref(w, lhs), rhs)

\* operator==(const T& lhs, const optional<U>& rhs)
value_eq(w, lhs, rhs) ==
    has_value(w, rhs) /\ slot_eq(lhs, Deref(w, rhs))

\* a value-on-the-left inequality that forgets the Empty case
value_ne_present_only(w, lhs, rhs) ==
    has_value(w, rhs) /\ slot_ne(lhs, Deref(w, rhs))

\* operator!=(const T& lhs, const optional<U>& rhs)
value_ne(w, lhs, rhs) ==
    ~has_value(w, rhs) \/ slot_ne(lhs, Deref(w, rhs))

\* a bool handed back to the caller
BoolRet(b) ==
    [NoRet EXCEPT !.kind = IF b THEN "true" ELSE "false"]

\* a T handed back to the caller by value
ValRet(v) ==
    [NoRet EXCEPT !.kind = "value", !.val = v]

----------------------------------------------------------------------------
(* The client: any call on any optional, one call per step *)

Init ==
    /\ opts = [o \in Opts |-> NoObject]
    /\ balance = 0
    /\ doubleDestroy = FALSE
    /\ aborted = FALSE
    /\ ret = NoRet
    /\ last = [op |-> "init", a |-> Nobody, b |-> Nobody, v |-> NoVal,
               pre |-> [o \in Opts |-> NoObject], nc |-> 0, nd |-> 0,
               steps |-> <<>>]
    /\ copied = NoCopy

\* the call op(a, b, v) took the world to w and returned r
Call(op, a, b, v, w, r) ==
    /\ opts' = w.o
    /\ balance' = w.bal
    /\ doubleDestroy' = w.dd
    /\ ret' = r
    /\ last' = [op |-> op, a |-> a, b |-> b, v |-> v,
                pre |-> opts, nc |-> w.nc, nd |-> w.nd,
                steps |-> w.steps]

\* fit::optional<slot> a;
DefaultConstruct(a) ==
    /\ ~aborted /\ ~opts[a].exists
    /\ Call("optional_default", a, Nobody, NoVal, optional_default(World, a), NoRet)
    /\ UNCHANGED <<aborted, copied>>

\* fit::optional<slot> a(fit::nullopt);
NulloptConstruct(a) ==
    /\ ~aborted /\ ~opts[a].exists
    /\ Call("optional_nullopt", a, Nobody, NoVal, optional_nullopt(World, a), NoRet)
    /\ UNCHANGED <<aborted, copied>>

\* fit::optional<slot> a({v});
ValueConstruct(a, v) ==
    /\ ~aborted /\ ~opts[a].exists
    /\ Call("optional_value", a, Nobody, v, optional_value(World, a, v), NoRet)
    /\ UNCHANGED <<aborted, copied>>

\* fit::optional<slot> a(b);
CopyConstruct(a, b) ==
    /\ ~aborted /\ ~opts[a].exists /\ opts[b].exists
    /\ Call("optional_copy", a, b, NoVal, optional_copy(World, a, b), NoRet)
    /\ copied' = IF opts[b].has_value_ THEN <<a, b>> ELSE copied
    /\ UNCHANGED aborted

\* fit::optional<slot> a(std::move(b));
MoveConstruct(a, b) ==
    /\ ~aborted /\ ~opts[a].exists /\ opts[b].exists
    /\ Call("optional_move", a, b, NoVal, optional_move(World, a, b), NoRet)
    /\ UNCHANGED <<aborted, copied>>

\* a goes out of scope
Destroy(a) ==
    /\ ~aborted /\ opts[a].exists
    /\ Call("optional_dtor", a, Nobody, NoVal, Dealloc(optional_dtor(World, a), a), NoRet)
    /\ copied' = IF a \in {copied[1], copied[2]} THEN NoCopy ELSE copied
    /\ UNCHANGED aborted

\* a.value().value
Value(a) ==
    /\ ~aborted /\ opts[a].exists
    /\ LET r == value(World, a)
       IN  IF r.abort
           THEN /\ aborted' = TRUE
                /\ Call("value", a, Nobody, NoVal, World, NoRet)
           ELSE /\ aborted' = FALSE
                /\ \E x \in ReadThrough(World, r.ref) :
                       Call("value", a, Nobody, NoVal, World, x)
    /\ UNCHANGED copied

\* a->get()
Arrow(a) ==
    /\ ~aborted /\ opts[a].exists
    /\ LET r == operator_arrow(World, a)
       IN  IF r.abort
           THEN /\ aborted' = TRUE
                /\ Call("operator_arrow", a, Nobody, NoVal, World, NoRet)
           ELSE /\ aborted' = FALSE
                /\ \E x \in ReadThrough(World, r.ref) :
                       Call("operator_arrow", a, Nobody, NoVal, World, x)
    /\ UNCHANGED copied

\* (*a).value
Star(a) ==
    /\ ~aborted /\ opts[a].exists
    /\ LET r == operator_star(World, a)
       IN  IF r.abort
           THEN /\ aborted' = TRUE
                /\ Call("operator_star", a, Nobody, NoVal, World, NoRet)
           ELSE /\ aborted' = FALSE
                /\ \E x \in ReadThrough(World, r.ref) :
                       Call("operator_star", a, Nobody, NoVal, World, x)
    /\ UNCHANGED copied

\* a->increment(), on a Present a whose value has room to grow
Increment(a) ==
    /\ ~aborted /\ opts[a].exists
    /\ opts[a].has_value_ /\ opts[a].live /\ opts[a].value < MaxVal
    /\ Call("increment", a, Nobody, NoVal, increment(World, a), NoRet)
    /\ UNCHANGED <<aborted, copied>>

\* a.reset();
Reset(a) ==
    /\ ~aborted /\ opts[a].exists
    /\ Call("reset", a, Nobody, NoVal, reset(World, a), NoRet)
    /\ UNCHANGED <<aborted, copied>>

\* a = b;  (b may be a itself)
CopyAssign(a, b) ==
    /\ ~aborted /\ opts[a].exists /\ opts[b].exists
    /\ Call("assign_copy", a, b, NoVal, assign_copy(World, a, b), NoRet)
    /\ copied' = IF a # b /\ opts[b].has_value_ THEN <<a, b>> ELSE copied
    /\ UNCHANGED aborted

\* a = std::move(b);  (b may be a itself)
MoveAssign(a, b) ==
    /\ ~aborted /\ opts[a].exists /\ opts[b].exists
    /\ Call("assign_move", a, b, NoVal, assign_move(World, a, b), NoRet)
    /\ UNCHANGED <<aborted, copied>>

\* a = fit::nullopt;
NulloptAssign(a) ==
    /\ ~aborted /\ opts[a].exists
    /\ Call("assign_nullopt", a, Nobody, NoVal, assign_nullopt(World, a), NoRet)
    /\ UNCHANGED <<aborted, copied>>

\* a = {v};
ValueAssign(a, v) ==
    /\ ~aborted /\ opts[a].exists
    /\ Call("assign_value", a, Nobody, v, assign_value(World, a, v), NoRet)
    /\ UNCHANGED <<aborted, copied>>

\* a.swap(b);  (b may be a itself)
Swap(a, b) ==
    /\ ~aborted /\ opts[a].exists /\ opts[b].exists
    /\ Call("swap", a, b, NoVal, swap(World, a, b), NoRet)
    /\ UNCHANGED <<aborted, copied>>

\* swap(a, b);  (b may be a itself)
FreeSwap(a, b) ==
    /\ ~aborted /\ opts[a].exists /\ opts[b].exists
    /\ Call("swap_free", a, b, NoVal, swap_free(World, a, b), NoRet)
    /\ UNCHANGED <<aborted, copied>>

\* a.value_or({d}): the result is a temporary slot of the caller
ValueOr(a, d) ==
    /\ ~aborted /\ opts[a].exists
    /\ Call("value_or", a, Nobody, d, World, ValRet(value_or(World, a, d)))
    /\ UNCHANGED <<aborted, copied>>

\* a == b and a != b  (b may be a itself)
CompareOptionals(a, b) ==
    /\ ~aborted /\ opts[a].exists /\ opts[b].exists
    /\ \/ Call("eq_optional", a, b, NoVal, World, BoolRet(eq_optional(World, a, b)))
       \/ Call("ne_optional", a, b, NoVal, World, BoolRet(ne_optional(World, a, b)))
    /\ UNCHANGED <<aborted, copied>>

\* a == fit::nullopt, a != fit::nullopt, fit::nullopt == a, fit::nullopt != a
CompareNullopt(a) ==
    /\ ~aborted /\ opts[a].exists
    /\ \/ Call("eq_nullopt", a, Nobody, NoVal, World, BoolRet(eq_nullopt(World, a)))
       \/ Call("ne_nullopt", a, Nobody, NoVal, World, BoolRet(ne_nullopt(World, a)))
       \/ Call("nullopt_eq", a, Nobody, NoVal, World, BoolRet(nullopt_eq(World, a)))
       \/ Call("nullopt_ne", a, Nobody, NoVal, World, BoolRet(nullopt_ne(World, a)))
    /\ UNCHANGED <<aborted, copied>>

\* a == slot{v}, a != slot{v}, slot{v} == a, slot{v} != a
CompareValue(a, v) ==
    /\ ~aborted /\ opts[a].exists
    /\ \/ Call("eq_value", a, Nobody, v, World, BoolRet(eq_value(World, a, v)))
       \/ Call("ne_value", a, Nobody, v, World, BoolRet(ne_value(World, a, v)))
       \/ Call("value_eq", a, Nobody, v, World, BoolRet(value_eq(World, v, a)))
       \/ Call("value_ne", a, Nobody, v, World, BoolRet(value_ne(World, v, a)))
    /\ UNCHANGED <<aborted, copied>>

Next ==
    \/ \E a \in Opts : DefaultConstruct(a)
    \/ \E a \in Opts : NulloptConstruct(a)
    \/ \E a \in Opts, v \in Vals : ValueConstruct(a, v)
    \/ \E a, b \in Opts : CopyConstruct(a, b)
    \/ \E a, b \in Opts : MoveConstruct(a, b)
    \/ \E a \in Opts : Destroy(a)
    \/ \E a \in Opts : Value(a)
    \/ \E a \in Opts : Arrow(a)
    \/ \E a \in Opts : Star(a)
    \/ \E a \in Opts : Increment(a)
    \/ \E a \in Opts : Reset(a)
    \/ \E a, b \in Opts : CopyAssign(a, b)
    \/ \E a, b \in Opts : MoveAssign(a, b)
    \/ \E a \in Opts : NulloptAssign(a)
    \/ \E a \in Opts, v \in Vals : ValueAssign(a, v)
    \/ \E a, b \in Opts : Swap(a, b)
    \/ \E a, b \in Opts : FreeSwap(a, b)
    \/ \E a \in Opts, d \in Vals : ValueOr(a, d)
    \/ \E a, b \in Opts : CompareOptionals(a, b)
    \/ \E a \in Opts : CompareNullopt(a)
    \/ \E a \in Opts, v \in Vals : CompareValue(a, v)

Spec == Init /\ [][Next]_vars

----------------------------------------------------------------------------
(* Shape of the state *)

TypeOK ==
    /\ opts \in [Opts -> [exists : BOOLEAN, has_value_ : BOOLEAN,
                          live : BOOLEAN, value : Garbage]]
    /\ balance \in 0..NumOpts
    /\ doubleDestroy \in BOOLEAN
    /\ aborted \in BOOLEAN
    /\ ret \in [kind : {"none", "ref", "value", "true", "false"}, target : Opts \cup {Nobody},
                refLive : BOOLEAN, val : Garbage]
    /\ copied \in (Opts \cup {Nobody}) \X (Opts \cup {Nobody})

----------------------------------------------------------------------------
(* Vocabulary of the properties.  s is a value of opts. *)

\* has_value() is true and the contained T is alive with value v
PresentWith(s, o, v) ==
    s[o].exists /\ s[o].has_value_ /\ s[o].live /\ s[o].value = v

\* has_value() is false and the storage holds no live T
EmptyDead(s, o) ==
    s[o].exists /\ ~s[o].has_value_ /\ ~s[o].live

\* the optionals the call recorded in l is entitled to write
Written(l) ==
    IF l.op \in {"optional_move", "assign_move", "swap", "swap_free"}
    THEN {l.a, l.b}
    ELSE {l.a}

----------------------------------------------------------------------------
\* C1: after any sequence of public operations, the storage of every
\* optional holds a constructed, not yet destroyed T if and only if its
\* has_value() is true.
C1_LiveIffHasValue ==
    \A o \in Opts : opts[o].exists => (opts[o].live <=> opts[o].has_value_)

\* a move assignment has just emptied a Present source into its target
C1_Witness ==
    /\ last.op = "assign_move" /\ last.a # last.b
    /\ last.pre[last.b].has_value_
    /\ opts[last.a].has_value_ /\ opts[last.a].live
    /\ ~opts[last.b].has_value_ /\ ~opts[last.b].live

\* C2: no destructor ever runs on storage that holds no live T, and once
\* every optional is destroyed the net count of T constructions minus
\* destructions is back to zero.
C2_DestroyedExactlyOnce ==
    /\ ~doubleDestroy
    /\ (\A o \in Opts : ~opts[o].exists) => balance = 0

\* the last optional alive was Present and has just been destroyed
C2_Witness ==
    /\ last.op = "optional_dtor" /\ last.nd = 1
    /\ last.pre[last.a].has_value_
    /\ \A o \in Opts : ~opts[o].exists

\* C3: value() on an Empty optional ends in the assertion failure and
\* returns nothing; value() on a Present optional returns the contained
\* value and leaves the optional unchanged.
C3_ValueContract ==
    last.op = "value" =>
        IF last.pre[last.a].has_value_
        THEN /\ ~aborted
             /\ ret.kind = "ref" /\ ret.target = last.a /\ ret.refLive
             /\ ret.val = last.pre[last.a].value
             /\ opts = last.pre
        ELSE /\ aborted
             /\ ret = NoRet

\* value() was called on an Empty optional
C3_Witness ==
    /\ last.op = "value"
    /\ ~last.pre[last.a].has_value_
    /\ aborted

\* C4 as stated: operator-> and operator* on an Empty optional end in the
\* assertion failure of value() and never yield a reference to storage that
\* holds no live T.
C4_DerefFailsLikeValue ==
    (last.op \in {"operator_arrow", "operator_star"} /\ ~last.pre[last.a].has_value_) =>
        /\ aborted
        /\ ~(ret.kind = "ref" /\ ~ret.refLive)

\* C4 amended: operator-> and operator* check nothing.  On a Present
\* optional they yield the contained T and leave the optional unchanged; on
\* an Empty optional they do not reach the assertion failure and yield the
\* address of storage that holds no live T.
C4_DerefUnchecked ==
    last.op \in {"operator_arrow", "operator_star"} =>
        /\ ~aborted
        /\ opts = last.pre
        /\ ret.kind = "ref" /\ ret.target = last.a
        /\ ret.refLive = last.pre[last.a].has_value_
        /\ last.pre[last.a].has_value_ => ret.val = last.pre[last.a].value

\* operator* was applied to an Empty optional and returned
C4_Witness ==
    /\ last.op = "operator_star"
    /\ ~last.pre[last.a].has_value_
    /\ ~aborted
    /\ ret.kind = "ref" /\ ~ret.refLive

\* C5: move construction b(std::move(a)) (last.a is b, last.b is a): from a
\* Present a with value v, b is Present with v and a is Empty with its T
\* destroyed; from an Empty a, b is Empty and a is unchanged.  In every case
\* a holds no live value afterwards.
C5_MoveConstruct ==
    last.op = "optional_move" =>
        LET dst == last.a
            src == last.b
        IN  /\ IF last.pre[src].has_value_
               THEN /\ PresentWith(opts, dst, last.pre[src].value)
                    /\ EmptyDead(opts, src)
                    /\ last.nd = 1
               ELSE /\ EmptyDead(opts, dst)
                    /\ opts[src] = last.pre[src]
            /\ ~opts[src].has_value_ /\ ~opts[src].live

\* an optional was move-constructed from a Present one
C5_Witness ==
    /\ last.op = "optional_move"
    /\ last.pre[last.b].has_value_
    /\ opts[last.a].has_value_

\* C6: move assignment a = std::move(b) between distinct optionals: b is
\* Empty afterwards with any previous value destroyed, and a is Present with
\* b's prior value if b was Present, otherwise Empty with its previous value
\* destroyed.
C6_MoveAssign ==
    (last.op = "assign_move" /\ last.a # last.b) =>
        /\ EmptyDead(opts, last.b)
        /\ IF last.pre[last.b].has_value_
           THEN PresentWith(opts, last.a, last.pre[last.b].value)
           ELSE EmptyDead(opts, last.a)

\* a Present optional was move-assigned a different value from a Present one
C6_Witness ==
    /\ last.op = "assign_move" /\ last.a # last.b
    /\ last.pre[last.a].has_value_ /\ last.pre[last.b].has_value_
    /\ last.pre[last.a].value # last.pre[last.b].value
    /\ opts[last.a].value = last.pre[last.b].value

\* C7: a = a and a = std::move(a) are no-ops: presence and value are as
\* before and no T is constructed or destroyed.
C7_SelfAssignNoOp ==
    (last.op \in {"assign_copy", "assign_move"} /\ last.a = last.b) =>
        /\ opts = last.pre
        /\ last.nc = 0 /\ last.nd = 0
        /\ balance = Cardinality({o \in Opts : last.pre[o].live})

\* a Present optional was move-assigned to itself
C7_Witness ==
    /\ last.op = "assign_move" /\ last.a = last.b
    /\ last.pre[last.a].has_value_
    /\ opts[last.a].has_value_

\* C8: copy assignment a = b between distinct optionals: a is Present
\* exactly when b is, with b's value, and b is unchanged.
C8_CopyAssign ==
    (last.op = "assign_copy" /\ last.a # last.b) =>
        /\ opts[last.a].has_value_ = last.pre[last.b].has_value_
        /\ IF last.pre[last.b].has_value_
           THEN PresentWith(opts, last.a, last.pre[last.b].value)
           ELSE EmptyDead(opts, last.a)
        /\ opts[last.b] = last.pre[last.b]

\* a Present optional was copy-assigned from an Empty one
C8_Witness ==
    /\ last.op = "assign_copy" /\ last.a # last.b
    /\ last.pre[last.a].has_value_ /\ ~last.pre[last.b].has_value_
    /\ ~opts[last.a].has_value_

\* C9: a copy and its source are independent: the copy itself leaves the
\* source as it was, and afterwards no call changes the presence or the
\* value of whichever of the two it was not applied to.
C9_CopyIndependent ==
    [][\A o \in ({copied[1], copied[2], copied'[1], copied'[2]} \cap Opts) :
           o \notin Written(last') => opts'[o] = opts[o]]_vars

\* the copy's value was incremented and the source still has the old one
C9_Witness ==
    /\ copied # NoCopy
    /\ last.op = "increment" /\ last.a = copied[1]
    /\ opts[copied[2]].has_value_
    /\ opts[copied[2]].value = last.pre[copied[1]].value
    /\ opts[copied[1]].value = opts[copied[2]].value + 1

\* C10: a.swap(b) and swap(a, b) exchange presence and value in every
\* presence combination, and are no-ops when a and b are the same object.
C10_Swap ==
    last.op \in {"swap", "swap_free"} =>
        /\ opts[last.a] = last.pre[last.b]
        /\ opts[last.b] = last.pre[last.a]
        /\ opts[last.a].has_value_ = opts[last.a].live
        /\ opts[last.b].has_value_ = opts[last.b].live

\* a Present optional was swapped with an Empty one
C10_Witness ==
    /\ last.op = "swap" /\ last.a # last.b
    /\ last.pre[last.a].has_value_ /\ ~last.pre[last.b].has_value_
    /\ ~opts[last.a].has_value_ /\ opts[last.b].has_value_

\* C11: reset() and assignment from nullopt have the same effect: on a
\* Present optional each destroys the contained value exactly once and
\* leaves the optional Empty; on an Empty optional each changes nothing and
\* destroys nothing, so repeating either ends in Empty again.
C11_ResetAndNullopt ==
    /\ last.op \in {"reset", "assign_nullopt"} =>
           /\ EmptyDead(opts, last.a)
           /\ last.nc = 0
           /\ IF last.pre[last.a].has_value_
              THEN last.nd = 1
              ELSE last.nd = 0 /\ opts = last.pre
           /\ \A o \in Opts \ {last.a} : opts[o] = last.pre[o]
    /\ \A o \in Opts :
           opts[o].exists => assign_nullopt(World, o) = reset(World, o)

\* a Present optional was assigned nullopt
C11_Witness ==
    /\ last.op = "assign_nullopt"
    /\ last.pre[last.a].has_value_ /\ last.pre[last.a].live
    /\ last.nd = 1
    /\ ~opts[last.a].has_value_

\* C12: a = v leaves a Present with value v in both prior states; a T that
\* was already there is assigned into, neither destroyed nor reconstructed,
\* and an Empty a gets exactly one new T constructed in place.
C12_AssignValue ==
    last.op = "assign_value" =>
        /\ PresentWith(opts, last.a, last.v)
        /\ last.nd = 0
        /\ last.nc = (IF last.pre[last.a].has_value_ THEN 0 ELSE 1)

\* a Present optional was assigned a different raw value
C12_Witness ==
    /\ last.op = "assign_value"
    /\ last.pre[last.a].has_value_
    /\ last.pre[last.a].value # last.v
    /\ opts[last.a].value = last.v

\* C13: a default-constructed optional and one constructed from nullopt are
\* Empty and construct no T; one constructed from v is Present with value v.
C13_Construction ==
    /\ last.op \in {"optional_default", "optional_nullopt"} =>
           EmptyDead(opts, last.a) /\ last.nc = 0 /\ last.nd = 0
    /\ last.op = "optional_value" =>
           PresentWith(opts, last.a, last.v) /\ last.nc = 1 /\ last.nd = 0

\* an optional was default-constructed next to a Present one
C13_Witness ==
    /\ last.op = "optional_default"
    /\ ~opts[last.a].has_value_
    /\ \E o \in Opts \ {last.a} : opts[o].has_value_

\* C14: a == b holds exactly when both are Present with equal values or
\* both are Empty, and a != b is the negation of a == b in every case.
C14_EqualOptionals ==
    /\ last.op \in {"eq_optional", "ne_optional"} =>
           LET p == last.pre
               same == \/ ~p[last.a].has_value_ /\ ~p[last.b].has_value_
                       \/ /\ p[last.a].has_value_ /\ p[last.b].has_value_
                          /\ p[last.a].value = p[last.b].value
           IN  /\ ret.kind \in {"true", "false"}
               /\ (ret.kind = "true") <=> (IF last.op = "eq_optional" THEN same ELSE ~same)
               /\ opts = p
    /\ \A a, b \in Opts :
           (opts[a].exists /\ opts[b].exists) =>
               ne_optional(World, a, b) = ~eq_optional(World, a, b)

\* an Empty optional was found unequal to a Present one
C14_Witness ==
    /\ last.op = "ne_optional"
    /\ ~last.pre[last.a].has_value_ /\ last.pre[last.b].has_value_
    /\ ret.kind = "true"

\* C15: (a == nullopt) = (nullopt == a) = !a.has_value(); (a == v) =
\* (v == a) = (a is Present with value v), so an Empty optional is unequal
\* to every raw value; each != form is the negation of its == form.
C15_NulloptAndValue ==
    /\ last.op \in {"eq_nullopt", "nullopt_eq"} =>
           (ret.kind = "true") <=> ~last.pre[last.a].has_value_
    /\ last.op \in {"ne_nullopt", "nullopt_ne"} =>
           (ret.kind = "true") <=> last.pre[last.a].has_value_
    /\ last.op \in {"eq_value", "value_eq"} =>
           (ret.kind = "true") <=> PresentWith(last.pre, last.a, last.v)
    /\ last.op \in {"ne_value", "value_ne"} =>
           (ret.kind = "true") <=> ~PresentWith(last.pre, last.a, last.v)
    /\ last.op \in {"eq_nullopt", "nullopt_eq", "ne_nullopt", "nullopt_ne",
                    "eq_value", "value_eq", "ne_value", "value_ne"} =>
           ret.kind \in {"true", "false"} /\ opts = last.pre
    /\ \A a \in Opts :
           opts[a].exists =>
               /\ eq_nullopt(World, a) = nullopt_eq(World, a)
               /\ ne_nullopt(World, a) = ~eq_nullopt(World, a)
               /\ nullopt_ne(World, a) = ~nullopt_eq(World, a)
               /\ \A v \in Vals :
                      /\ eq_value(World, a, v) = value_eq(World, v, a)
                      /\ ne_value(World, a, v) = ~eq_value(World, a, v)
                      /\ value_ne(World, v, a) = ~value_eq(World, v, a)

\* a raw value was found unequal to an Empty optional
C15_Witness ==
    /\ last.op = "value_ne"
    /\ ~last.pre[last.a].has_value_
    /\ ret.kind = "true"

\* C16: value_or(d) returns the contained value when Present and d when
\* Empty, leaves the optional as it was and never ends in the assertion
\* failure.
C16_ValueOr ==
    last.op = "value_or" =>
        /\ ~aborted
        /\ opts = last.pre
        /\ last.nc = 0 /\ last.nd = 0
        /\ ret.kind = "value"
        /\ ret.val = (IF last.pre[last.a].has_value_
                      THEN last.pre[last.a].value
                      ELSE last.v)

\* value_or gave the default for an Empty optional
C16_Witness ==
    /\ last.op = "value_or"
    /\ ~last.pre[last.a].has_value_
    /\ ret.kind = "value" /\ ret.val = last.v

\* C19: a = b with both Present assigns through T's copy assignment: no T
\* is constructed or destroyed in either optional, and the net count of
\* constructions and destructions is as before.
C19_CopyAssignInPlace ==
    (/\ last.op = "assign_copy" /\ last.a # last.b
     /\ last.pre[last.a].has_value_ /\ last.pre[last.b].has_value_) =>
        /\ last.nc = 0 /\ last.nd = 0
        /\ balance = Cardinality({o \in Opts : last.pre[o].live})
        /\ \A i \in 1..Len(last.steps) :
               last.steps[i][last.a].live /\ last.steps[i][last.b].live

\* a Present optional was copy-assigned a different value from a Present one
C19_Witness ==
    /\ last.op = "assign_copy" /\ last.a # last.b
    /\ last.pre[last.a].has_value_ /\ last.pre[last.b].has_value_
    /\ last.pre[last.a].value # last.pre[last.b].value
    /\ opts[last.a].value = opts[last.b].value

----------------------------------------------------------------------------
(* Inside a call *)

\* the optionals before the call recorded in l and after each of its statements
Points(l) ==
    <<l.pre>> \o l.steps

\* the <<source, destination>> of the call recorded in l when it moves a
\* value out of a Present optional into one that held none: move
\* construction, move assignment to an Empty target, swap of a Present with
\* an Empty optional
Transfer(l) ==
    IF l.op = "optional_move"
    THEN IF l.pre[l.b].has_value_ THEN {<<l.b, l.a>>} ELSE {}
    ELSE IF l.op \in {"assign_move", "swap", "swap_free"} /\ l.a # l.b
         THEN IF l.pre[l.b].has_value_ /\ ~l.pre[l.a].has_value_
              THEN {<<l.b, l.a>>}
              ELSE IF /\ l.op # "assign_move"
                      /\ l.pre[l.a].has_value_ /\ ~l.pre[l.b].has_value_
                   THEN {<<l.a, l.b>>}
                   ELSE {}
         ELSE {}

\* C17 as stated: at no point of a move construction, a move assignment
\* or a swap between a Present and an Empty optional do source and
\* destination both hold a live value.
C17_NoWindow ==
    \A t \in Transfer(last) :
        \A i \in 1..Len(Points(last)) :
            ~(Points(last)[i][t[1]].live /\ Points(last)[i][t[2]].live)

\* C17 amended: the transfer is atomic for the caller only.  Before the
\* call the source alone holds a live value and after it the destination
\* alone does, Present with that value, the source being Empty; inside the
\* call at least one of the two holds a live T at every point, and both do
\* between the placement construction in the destination and the destructor
\* call on the source.
C17_AtomicForCaller ==
    \A t \in Transfer(last) :
        LET src == t[1]
            dst == t[2]
            pts == Points(last)
        IN  /\ last.pre[src].live /\ ~last.pre[dst].live
            /\ EmptyDead(opts, src)
            /\ PresentWith(opts, dst, last.pre[src].value)
            /\ pts[Len(pts)][src] = opts[src] /\ pts[Len(pts)][dst] = opts[dst]
            /\ \A i \in 1..Len(pts) : pts[i][src].live \/ pts[i][dst].live
            /\ \E i \in 2..(Len(pts) - 1) : pts[i][src].live /\ pts[i][dst].live

\* in the middle of a move construction both optionals held a live T
C17_Witness ==
    /\ last.op = "optional_move"
    /\ Transfer(last) = {<<last.b, last.a>>}
    /\ \E i \in 1..Len(last.steps) :
           last.steps[i][last.a].live /\ last.steps[i][last.b].live
    /\ ~opts[last.b].live /\ opts[last.a].live

\* C18: whenever a call clears an optional's presence flag, the T the flag
\* guarded has been destroyed by then: the flag never goes from true to
\* false over storage that still holds a live T.
C18_DestroyBeforeFlagClears ==
    LET pts == Points(last)
    IN  \A i \in 1..(Len(pts) - 1) : \A o \in Opts :
            (/\ pts[i][o].exists /\ pts[i + 1][o].exists
             /\ pts[i][o].has_value_ /\ ~pts[i + 1][o].has_value_) =>
                ~pts[i][o].live /\ ~pts[i + 1][o].live

\* a move assignment destroyed its Present source's T and then cleared
\* the source's flag
C18_Witness ==
    /\ last.op = "assign_move" /\ last.a # last.b
    /\ last.pre[last.b].has_value_ /\ last.pre[last.b].live
    /\ ~opts[last.b].has_value_
    /\ \E i \in 1..Len(last.steps) :
           last.steps[i][last.b].has_value_ /\ ~last.steps[i][last.b].live

\* C20: in copy assignment, move assignment, raw-value assignment and swap,
\* an optional that was Empty before the call and is Present after it has
\* its T constructed before its flag is set: at no point of the call does
\* that optional's flag read true over storage that holds no live T.
C20_ConstructBeforeFlagSets ==
    last.op \in {"assign_copy", "assign_move", "assign_value", "swap", "swap_free"} =>
        LET pts == Points(last)
        IN  \A o \in Opts :
                (/\ last.pre[o].exists /\ ~last.pre[o].has_value_
                 /\ opts[o].has_value_) =>
                    /\ \A i \in 1..Len(pts) : pts[i][o].has_value_ => pts[i][o].live
                    /\ \E i \in 1..Len(pts) : pts[i][o].live /\ ~pts[i][o].has_value_

\* a swap filled its Empty argument: the T was there before the flag was set
C20_Witness ==
    /\ last.op = "swap" /\ last.a # last.b
    /\ last.pre[last.a].has_value_ /\ ~last.pre[last.b].has_value_
    /\ opts[last.b].has_value_ /\ opts[last.b].live
    /\ \E i \in 1..Len(last.steps) :
           last.steps[i][last.b].live /\ ~last.steps[i][last.b].has_value_

====
